---- MODULE Spec2Model ----
(***************************************************************************)
(* A model of compress_video.py: the start-up check of the encode tool,    *)
(* discovery (find_files with the is_suitable_for_compression filter,      *)
(* which probes every file it considers), and compress_video (codec        *)
(* fallback, sticky codec, accept/reject on sizes).                        *)
(*                                                                         *)
(* Conventions.  A file name is a sequence of one-character strings, a     *)
(* path the sequence of its components starting at the root.  Sizes are    *)
(* bytes.  A duration is the whole number of seconds float() parses from   *)
(* the probe output.  The probe output is a sequence of stream sections,   *)
(* each with an encoder tag and at most one numeric duration.  Python's    *)
(* None is the empty sequence <<>>.                                        *)
(***************************************************************************)
EXTENDS Integers, Sequences, FiniteSets

VARIABLES
  inpdir,    \* self.inpdir: the path given on the command line
  ffmpeg,    \* how "ffmpeg -version" behaves: "ok", "fails" (nonzero), "missing"
  fs,        \* the file system: path -> entry
  fs0,       \* the file system when the program started (never changes)
  tmp,       \* the scratch output file of run(): <<>> (absent) or <<size>>
  pc,        \* where the program is
  codec,     \* self.codec: None (<<>>) or the locked-in codec option
  files,     \* the list find_all_non_compressed_video returned
  i,         \* the index of run()'s loop over files
  k,         \* the index of compress_video's loop over __codecs
  log,       \* the external tool invocations and decisions so far, in order
  exitcode,  \* <<>> while running, <<status>> once the process has ended
  report,    \* what the program printed about its end
  verdict    \* the value of a lone is_video_compressed call

vars == <<inpdir, ffmpeg, fs, fs0, tmp, pc, codec, files, i, k, log, exitcode, report, verdict>>

None == <<>>

(***************************** bounds ***************************************)
\* entries below the root in the trees discovery is checked on
MaxEntries == 3
\* files in the directory a whole run is checked on
MaxFiles == 2
\* stream sections in a probe output given to is_video_compressed alone
MaxStreams == 2

(***************************** constants ************************************)
Mb == 1024 * 1024

Codecs == <<
  <<"-c:v", "hevc_nvenc">>,
  <<"-c:v", "libx265", "-crf", "25">>,
  <<"-c:v", "hevc", "-crf", "25">> >>

Extensions == <<
  <<".", "m", "p", "4">>,
  <<".", "a", "v", "i">>,
  <<".", "m", "p", "e", "g">>,
  <<".", "m", "p", "g">>,
  <<".", "m", "o", "v">> >>

(***************************** names and inputs *****************************)
RootPath == << <<"v", "i", "d", "e", "o", "s">> >>

\* the names of the files of a flat directory, by position
FlatNames == <<
  <<"a", ".", "m", "p", "4">>,
  <<"b", ".", "a", "v", "i">>,
  <<"c", ".", "m", "p", "e", "g">>,
  <<"d", ".", "m", "p", "g">>,
  <<"e", ".", "m", "o", "v">> >>

\* the names entries of a tree take: two allowed extensions, another extension,
\* and a dot-file, which has no extension
TreeNames == <<
  <<"a", ".", "m", "p", "4">>,
  <<"e", ".", "m", "o", "v">>,
  <<"n", ".", "t", "x", "t">>,
  <<".", "a", "v", "i">> >>

Names == {TreeNames[j] : j \in 1..Len(TreeNames)}

\* every name, in the order listdir is taken to return them
NameOrder ==
  FlatNames \o SelectSeq(TreeNames, LAMBDA n : \A j \in 1..Len(FlatNames) : FlatNames[j] # n)

Encoders == {"", "Lavc libx264", "Lavc libx265"}
DurationOpts == {<<>>, <<0>>, <<1>>, <<10>>}
Streams == [encoder : Encoders, duration : DurationOpts]

RECURSIVE SeqsUpTo(_, _)
SeqsUpTo(S, n) ==
  IF n = 0 THEN {<<>>}
  ELSE LET shorter == SeqsUpTo(S, n - 1)
       IN shorter \cup {Append(s, x) : s \in shorter, x \in S}

NoMeta == <<>>
TaggedMeta == <<[encoder |-> "Lavc libx265", duration |-> <<10>>]>>
SparseMeta == <<[encoder |-> "Lavc libx264", duration |-> <<>>],
                [encoder |-> "", duration |-> <<10>>]>>
DenseMeta == <<[encoder |-> "Lavc libx264", duration |-> <<1>>]>>
ZeroDurationMeta == <<[encoder |-> "", duration |-> <<0>>]>>

InSizes == {10 * Mb, 20 * Mb, 100 * Mb}
OutSizes == {8 * Mb, 8 * Mb + 1, 9 * Mb, 18 * Mb, 18 * Mb + 1, 80 * Mb, 90 * Mb, 95 * Mb}
ProbeSizes == {314572, 314573, 3145727, 3145728, 10 * Mb}

DirEntry == [kind |-> "dir", size |-> 0, meta |-> NoMeta, content |-> "dir"]
FileEntry(size, meta) == [kind |-> "file", size |-> size, meta |-> meta, content |-> "original"]

\* the files a tree holds: a candidate, three the classification calls compressed
\* or cannot classify
TreeFiles == {
  FileEntry(10 * Mb, NoMeta),
  FileEntry(10 * Mb, DenseMeta),
  FileEntry(10 * Mb, TaggedMeta),
  FileEntry(Mb, SparseMeta),
  FileEntry(10 * Mb, ZeroDurationMeta) }

(***************************** os.path **************************************)
isfile(path) == path \in DOMAIN fs /\ fs[path].kind = "file"
isdir(path) == path \in DOMAIN fs /\ fs[path].kind = "dir"
getsize(path) == fs[path].size
join(basedir, f) == Append(basedir, f)

listdir(basedir) ==
  SelectSeq(NameOrder, LAMBDA n : join(basedir, n) \in DOMAIN fs)

LastDot(name) ==
  LET dots == {j \in 1..Len(name) : name[j] = "."}
  IN IF dots = {} THEN 0 ELSE CHOOSE j \in dots : \A d \in dots : d <= j

\* splitext(path)[1]: from the last dot of the last component, unless only dots
\* come before it
splitext1(path) ==
  LET name == path[Len(path)]
      dotIndex == LastDot(name)
  IN IF dotIndex > 0 /\ \E j \in 1..(dotIndex - 1) : name[j] # "."
     THEN SubSeq(name, dotIndex, Len(name))
     ELSE <<>>

(***************************** classification *******************************)
\* re.search(__tag_encoder_265, output): some TAG:encoder line has x265 after at
\* least one other character
tag_encoder_265(meta) ==
  \E j \in 1..Len(meta) : meta[j].encoder = "Lavc libx265"

\* re.search(__duration, output): the first duration= followed by a number
duration_match(meta) ==
  LET hits == {j \in 1..Len(meta) : meta[j].duration # <<>>}
  IN IF hits = {} THEN <<>>
     ELSE meta[CHOOSE j \in hits : \A h \in hits : j <= h].duration

\* inpsz / duration < 0.3 * Mb, both sides multiplied by 10 * |duration|
density_below(inpsz, duration) ==
  IF duration > 0 THEN 10 * inpsz < 3 * Mb * duration
  ELSE 10 * inpsz > 3 * Mb * duration

\* "True", "False", or the exception the division raises
is_video_compressed(meta, inpsz) ==
  IF tag_encoder_265(meta) THEN "True"
  ELSE LET matched == duration_match(meta)
       IN IF matched = <<>> THEN "False"
          ELSE IF matched[1] = 0 THEN "ZeroDivisionError"
          ELSE IF density_below(inpsz, matched[1]) THEN "True"
          ELSE "False"

has_extension(path) ==
  \E j \in 1..Len(Extensions) : Extensions[j] = splitext1(path)

\* the paths is_suitable_for_compression probes: `and` stops at the first False
is_probed(path) == has_extension(path) /\ isfile(path)

is_suitable_for_compression(path) ==
  /\ has_extension(path)
  /\ isfile(path)
  /\ is_video_compressed(fs[path].meta, getsize(path)) = "False"

(***************************** discovery ************************************)
\* find_files without its loop over the subdirectories
find_files_top(basedir) ==
  LET names == listdir(basedir)
      paths == [j \in 1..Len(names) |-> join(basedir, names[j])]
  IN SelectSeq(paths, is_suitable_for_compression)

RECURSIVE find_files(_)
find_files(basedir) ==
  LET names == listdir(basedir)
      paths == [j \in 1..Len(names) |-> join(basedir, names[j])]
      RECURSIVE walk(_, _)
      walk(j, result) ==
        IF j > Len(paths) THEN result
        ELSE IF ~isdir(paths[j]) THEN walk(j + 1, result)
        ELSE walk(j + 1, result \o find_files(paths[j]))
  IN walk(1, SelectSeq(paths, is_suitable_for_compression))

\* the paths find_files hands to is_good, in the order of the calls
RECURSIVE is_good_calls(_)
is_good_calls(basedir) ==
  LET names == listdir(basedir)
      paths == [j \in 1..Len(names) |-> join(basedir, names[j])]
      RECURSIVE walk(_, _)
      walk(j, calls) ==
        IF j > Len(paths) THEN calls
        ELSE IF ~isdir(paths[j]) THEN walk(j + 1, calls)
        ELSE walk(j + 1, calls \o is_good_calls(paths[j]))
  IN walk(1, paths)

probe_raises(path) ==
  is_video_compressed(fs[path].meta, getsize(path)) = "ZeroDivisionError"

\* the probes discovery runs: one per probed path, up to the first that raises
probes_run(root) ==
  LET probed == SelectSeq(is_good_calls(root), is_probed)
      raising == {j \in 1..Len(probed) : probe_raises(probed[j])}
  IN IF raising = {} THEN probed
     ELSE SubSeq(probed, 1, CHOOSE j \in raising : \A r \in raising : j <= r)

\* whether find_all_non_compressed_video raises: listdir of a missing root, or a
\* probe that divides by a zero duration
discovery_raises(root) ==
  IF isfile(root) THEN FALSE
  ELSE IF ~isdir(root) THEN TRUE
  ELSE LET run == probes_run(root)
       IN run # <<>> /\ probe_raises(run[Len(run)])

\* find_all_non_compressed_video with the filter applied to a root file too
find_all_filtered(root) ==
  IF isfile(root) THEN SelectSeq(<<root>>, is_suitable_for_compression)
  ELSE find_files(root)

find_all_non_compressed_video(root) ==
  IF isfile(root) THEN <<root>>
  ELSE find_files(root)

(***************************** start-up *************************************)
\* check_ffmpeg_installed with the return code ignored
check_ffmpeg_installed_unchecked == "True"

\* subprocess.run(['ffmpeg', '-version']): the return code compared with 0, or
\* the FileNotFoundError subprocess raises when there is no such executable
check_ffmpeg_installed ==
  CASE ffmpeg = "ok" -> "True"
    [] ffmpeg = "fails" -> "False"
    [] OTHER -> "FileNotFoundError"

Event(op, path, opt, ok, inpsz, outpsz) ==
  [op |-> op, path |-> path, codec |-> opt, ok |-> ok, inpsz |-> inpsz, outpsz |-> outpsz]

\* CompressVideoFiles(): self.inpdir is the parsed root
construct ==
  /\ pc = "start"
  /\ LET installed == check_ffmpeg_installed
     IN CASE installed = "True" ->
               /\ pc' = "discover"
               /\ codec' = None
               /\ UNCHANGED <<exitcode, report>>
          [] installed = "False" ->
               /\ pc' = "exited"
               /\ report' = "[error] Can't find ffmpeg, try to install it"
               /\ exitcode' = <<255>>
               /\ UNCHANGED codec
          [] OTHER ->
               /\ pc' = "crashed"
               /\ report' = "Traceback: FileNotFoundError: 'ffmpeg'"
               /\ exitcode' = <<1>>
               /\ UNCHANGED codec
  /\ UNCHANGED <<inpdir, ffmpeg, fs, fs0, tmp, files, i, k, log, verdict>>

(***************************** run ******************************************)
\* run() up to its loop: find_all_non_compressed_video with every probe it makes
run_discover ==
  /\ pc = "discover"
  /\ IF discovery_raises(inpdir)
     THEN /\ pc' = "crashed"
          /\ exitcode' = <<1>>
          /\ report' = "Traceback"
          /\ log' = log \o [j \in 1..Len(probes_run(inpdir)) |->
                             Event("probe", probes_run(inpdir)[j], None, TRUE, 0, 0)]
          /\ UNCHANGED <<files, i, k>>
     ELSE LET found == find_all_non_compressed_video(inpdir)
              probed == IF isfile(inpdir) THEN <<>> ELSE probes_run(inpdir)
          IN /\ files' = found
             /\ log' = log \o [j \in 1..Len(probed) |->
                                Event("probe", probed[j], None, TRUE, 0, 0)]
             /\ IF Len(found) = 0
                THEN /\ pc' = "done"
                     /\ exitcode' = <<0>>
                     /\ report' = "[info] There are no files to compress"
                     /\ UNCHANGED <<i, k>>
                ELSE /\ pc' = "encode"
                     /\ i' = 1
                     /\ k' = 1
                     /\ UNCHANGED <<exitcode, report>>
  /\ UNCHANGED <<inpdir, ffmpeg, fs, fs0, tmp, codec, verdict>>

\* run()'s loop never moving on to the next file
next_index_stuck(n) == n

\* the end of compress_video: the next file of run()'s loop, or the end of run()
next_index(n) == n + 1

NextFile ==
  IF i < Len(files)
  THEN /\ pc' = "encode"
       /\ i' = next_index(i)
       /\ k' = 1
       /\ UNCHANGED <<exitcode, report>>
  ELSE /\ pc' = "done"
       /\ exitcode' = <<0>>
       /\ report' = "done"
       /\ UNCHANGED <<i, k>>

(***************************** compress_video *******************************)
\* compress_video going through the loop over __codecs whatever self.codec is
codec_to_run_retry(locked, option) == Codecs[option]

\* the codec option the next ffmpeg call gets: the loop's, or the locked-in one
codec_to_run(locked, option) ==
  IF locked = None THEN Codecs[option] ELSE locked

\* whether the loop over __codecs goes on after a failure of option
loop_continues(locked, option) ==
  locked = None /\ option < Len(Codecs)

\* the loop over __codecs skipping an option
next_option_skip(option) == option + 2

next_option(option) == option + 1

\* what a failed ffmpeg call leaves at the scratch path: what was there, or a
\* partial output
after_failure(scratch) == {scratch, <<0>>}

\* one run_ffmpeg_compress call and what compress_video does with its result
compress_video_encode ==
  /\ pc = "encode"
  /\ LET inp == files[i]
         opt == codec_to_run(codec, k)
     IN \E ok \in BOOLEAN :
          IF ok
          THEN \E outpsz \in OutSizes :
                 /\ tmp' = <<outpsz>>
                 /\ codec' = opt
                 /\ pc' = "decide"
                 /\ log' = Append(log, Event("encode", inp, opt, TRUE, 0, 0))
                 /\ UNCHANGED <<i, k, exitcode, report>>
          ELSE \E left \in after_failure(tmp) :
                 /\ tmp' = left
                 /\ UNCHANGED codec
                 /\ IF loop_continues(codec, k)
                    THEN /\ k' = next_option(k)
                         /\ log' = Append(log, Event("encode", inp, opt, FALSE, 0, 0))
                         /\ UNCHANGED <<pc, i, exitcode, report>>
                    ELSE /\ log' = log \o <<Event("encode", inp, opt, FALSE, 0, 0),
                                            Event("error", inp, None, FALSE, 0, 0)>>
                         /\ NextFile
  /\ UNCHANGED <<inpdir, ffmpeg, fs, fs0, files, verdict>>

\* the accept/reject test with <= for the floor
is_too_small_floor_le(inpsz, outpsz) ==
  10 * outpsz > 9 * inpsz \/ inpsz - outpsz <= 2 * Mb

\* the accept/reject test with >= for the ratio
is_too_small_ratio_ge(inpsz, outpsz) ==
  10 * outpsz >= 9 * inpsz \/ inpsz - outpsz < 2 * Mb

\* compression_ratio > 0.9 or inpsz - outpsz < 2 * Mb, the ratio test multiplied
\* by 10 * inpsz (inpsz > 0)
is_too_small(inpsz, outpsz) ==
  10 * outpsz > 9 * inpsz \/ inpsz - outpsz < 2 * Mb

\* a reject that leaves the output where it is
removed_never(scratch) == scratch

\* what is at the scratch path after remove(outp)
removed(scratch) == <<>>

\* the input path after shutil.move(outp, inp)
moved(entry, outpsz) ==
  [entry EXCEPT !.size = outpsz, !.content = "encoded"]

\* the sizes are compared and the output is removed or moved over the input
compress_video_decide ==
  /\ pc = "decide"
  /\ LET inp == files[i]
         inpsz == getsize(inp)
         outpsz == tmp[1]
     IN IF is_too_small(inpsz, outpsz)
        THEN /\ tmp' = removed(tmp)
             /\ log' = Append(log, Event("reject", inp, codec, TRUE, inpsz, outpsz))
             /\ UNCHANGED fs
        ELSE /\ fs' = [fs EXCEPT ![inp] = moved(fs[inp], outpsz)]
             /\ tmp' = <<>>
             /\ log' = Append(log, Event("accept", inp, codec, TRUE, inpsz, outpsz))
  /\ NextFile
  /\ UNCHANGED <<inpdir, ffmpeg, fs0, codec, files, verdict>>

\* is_video_compressed called on the root file alone
classify ==
  /\ pc = "classify"
  /\ verdict' = is_video_compressed(fs[inpdir].meta, getsize(inpdir))
  /\ pc' = "classified"
  /\ UNCHANGED <<inpdir, ffmpeg, fs, fs0, tmp, codec, files, i, k, log, exitcode, report>>

(***************************** initial states *******************************)
Fresh ==
  /\ fs0 = fs
  /\ tmp = <<>>
  /\ codec = None
  /\ files = <<>>
  /\ i = 0
  /\ k = 0
  /\ log = <<>>
  /\ exitcode = <<>>
  /\ report = ""
  /\ verdict = ""

\* the root as a regular file
RootFile(root, entry) == [p \in {root} |-> entry]

\* a directory of n files named by position
FlatDirs(n) ==
  LET paths == {join(RootPath, FlatNames[j]) : j \in 1..n}
      choices == [paths -> {FileEntry(s, m) : s \in InSizes, m \in {NoMeta, TaggedMeta}}]
  IN {[p \in paths \cup {RootPath} |-> IF p = RootPath THEN DirEntry ELSE c[p]] :
        c \in choices}

\* the sets of paths below the root with at most n entries, every parent included
RECURSIVE PathSets(_)
PathSets(n) ==
  IF n = 0 THEN {{RootPath}}
  ELSE LET smaller == PathSets(n - 1)
       IN smaller \cup UNION {{T \cup {join(p, nm)} : p \in T, nm \in Names} : T \in smaller}

Leaves(T) == {p \in T \ {RootPath} : \A nm \in Names : join(p, nm) \notin T}

\* every tree on a set of paths: a path with entries below it is a directory, any
\* other is an empty directory or a file
Trees(T) ==
  {[p \in T |-> IF p \in Leaves(T) THEN c[p] ELSE DirEntry] :
     c \in [Leaves(T) -> TreeFiles \cup {DirEntry}]}

\* a whole run: a flat directory of files, a missing root, or the root as a file
Init ==
  /\ ffmpeg \in {"ok", "fails", "missing"}
  /\ \/ inpdir = RootPath /\ \E n \in 0..MaxFiles : fs \in FlatDirs(n)
     \/ inpdir = RootPath /\ fs = <<>>
     \/ \E nm \in Names, s \in InSizes :
          inpdir = <<nm>> /\ fs = RootFile(inpdir, FileEntry(s, NoMeta))
  /\ pc = "start"
  /\ Fresh

\* discovery: every tree of at most MaxEntries entries, or the root as a file
InitDiscovery ==
  /\ ffmpeg = "ok"
  /\ \/ inpdir = RootPath /\ \E T \in PathSets(MaxEntries) : fs \in Trees(T)
     \/ \E nm \in Names, e \in TreeFiles : inpdir = <<nm>> /\ fs = RootFile(inpdir, e)
  /\ pc = "start"
  /\ Fresh

\* classification alone: every probe output of at most MaxStreams streams
InitClassify ==
  /\ ffmpeg = "ok"
  /\ inpdir = RootPath
  /\ \E m \in SeqsUpTo(Streams, MaxStreams), s \in ProbeSizes :
       fs = RootFile(inpdir, FileEntry(s, m))
  /\ pc = "classify"
  /\ Fresh

Next == construct \/ run_discover \/ compress_video_encode \/ compress_video_decide
NextDiscovery == construct \/ run_discover
NextClassify == classify

Spec == Init /\ [][Next]_vars
SpecDiscovery == InitDiscovery /\ [][NextDiscovery]_vars
SpecClassify == InitClassify /\ [][NextClassify]_vars

(***************************** reading the log ******************************)
Idx == 1..Len(log)
IsEncode(a) == log[a].op = "encode"
IsDecision(a) == log[a].op \in {"accept", "reject"}
IsEnd(a) == log[a].op \in {"accept", "reject", "error"}
OptionOf(a) == CHOOSE j \in 1..Len(Codecs) : Codecs[j] = log[a].codec
LockedBefore(b) == \E a \in 1..(b - 1) : IsEncode(a) /\ log[a].ok
FirstCallOn(b) == \A a \in 1..(b - 1) : IsEncode(a) => log[a].path # log[b].path
FileIndex(path) == CHOOSE j \in 1..Len(files) : files[j] = path
Discovered == pc \in {"encode", "decide", "done"}
AllowList == {Extensions[j] : j \in 1..Len(Extensions)}

C2_DecisionBySizes ==
  \A b \in Idx : IsDecision(b) =>
    /\ b > 1 /\ IsEncode(b - 1) /\ log[b - 1].ok /\ log[b - 1].path = log[b].path
    /\ log[b].inpsz = fs0[log[b].path].size
    /\ log[b].op = "reject" <=>
         \/ 10 * log[b].outpsz > 9 * log[b].inpsz
         \/ log[b].inpsz - log[b].outpsz < 2 * 1024 * 1024
    /\ log[b].op = "accept" =>
         /\ fs[log[b].path].size = log[b].outpsz
         /\ fs[log[b].path].content = "encoded"
    /\ \A a \in Idx :
         IsDecision(a) /\ log[a].inpsz = log[b].inpsz /\ log[a].outpsz = log[b].outpsz
           => log[a].op = log[b].op

\* a run that decided on both sides of the 2 MiB floor: a saving of exactly 2 MiB
\* accepted, a saving one byte short of it rejected with a ratio below 0.9
C2_Witness ==
  /\ \E a \in Idx : log[a].op = "accept" /\ log[a].inpsz - log[a].outpsz = 2 * Mb
  /\ \E b \in Idx : /\ log[b].op = "reject"
                    /\ log[b].inpsz - log[b].outpsz = 2 * Mb - 1
                    /\ 10 * log[b].outpsz < 9 * log[b].inpsz

(***************************** C3 *******************************************)
\* C3, as stated: an output of exactly 0.9 times the input size is rejected.
C3_ExactRatioRejected ==
  \A b \in Idx : IsDecision(b) /\ 10 * log[b].outpsz = 9 * log[b].inpsz =>
    log[b].op = "reject"

\* C3, amended: an output of exactly 0.9 times the input size passes the ratio
\* test; it is rejected exactly when the saving is below 2 MiB, that is when the
\* input is smaller than 20 MiB, and otherwise it replaces the original.
C3_ExactRatioDecidedByFloor ==
  \A b \in Idx : IsDecision(b) /\ 10 * log[b].outpsz = 9 * log[b].inpsz =>
    /\ log[b].op = "reject" <=> log[b].inpsz < 20 * Mb
    /\ log[b].op = "accept" => fs[log[b].path].size = log[b].outpsz
    /\ log[b].op = "reject" => fs[log[b].path] = fs0[log[b].path]

\* a run with an output of exactly 0.9 times the input accepted, and another
\* rejected
C3_Witness ==
  /\ \E a \in Idx : log[a].op = "accept" /\ 10 * log[a].outpsz = 9 * log[a].inpsz
  /\ \E b \in Idx : log[b].op = "reject" /\ 10 * log[b].outpsz = 9 * log[b].inpsz

(***************************** C4 *******************************************)
\* C4: a file for which there is no accept is as it was when the program started
\* (all options failed, or the output was rejected), no path appears or
\* disappears, and right after a reject the scratch output does not exist.
C4_OriginalKept ==
  /\ DOMAIN fs = DOMAIN fs0
  /\ \A p \in DOMAIN fs0 :
       (\A a \in Idx : ~(log[a].op = "accept" /\ log[a].path = p)) => fs[p] = fs0[p]
  /\ log # <<>> /\ log[Len(log)].op = "reject" => tmp = <<>>

\* a run in which every option failed on one file and the output of another file
\* has just been rejected
C4_Witness ==
  /\ log # <<>> /\ log[Len(log)].op = "reject"
  /\ \E a \in Idx : log[a].op = "error" /\ a > 3 /\ ~LockedBefore(a)
  /\ fs = fs0

C6_ClassificationTotal ==
  pc = "classified" =>
    LET meta == fs[inpdir].meta
        size == fs[inpdir].size
        tagged == \E j \in 1..Len(meta) : meta[j].encoder = "Lavc libx265"
        timed == {j \in 1..Len(meta) : meta[j].duration # <<>>}
        duration == meta[CHOOSE j \in timed : \A h \in timed : j <= h].duration[1]
    IN verdict = IF tagged THEN "True"
                 ELSE IF timed = {} THEN "False"
                 ELSE IF 10 * size < 3 * 1024 * 1024 * duration THEN "True"
                 ELSE "False"

(***************************** C7 *******************************************)
\* C7: when "ffmpeg -version" cannot be run or fails, the program ends with a
\* nonzero status and a printed error right after the check: nothing is probed or
\* encoded, no file list is made, no scratch file exists and no file changes.
C7_NoToolNoWork ==
  ffmpeg # "ok" =>
    /\ log = <<>> /\ files = <<>> /\ tmp = <<>> /\ fs = fs0
    /\ pc # "start" =>
         /\ pc \in {"exited", "crashed"}
         /\ exitcode # <<>> /\ exitcode[1] # 0
         /\ report # ""

\* the program has ended on a failing tool check with video files in the directory
C7_Witness ==
  /\ ffmpeg = "fails" /\ pc = "exited" /\ exitcode = <<255>>
  /\ \E p \in DOMAIN fs : fs[p].kind = "file" /\ fs[p].meta = NoMeta

(***************************** C8 *******************************************)
\* C8: when the root is a regular file, discovery returns the list of that one
\* path, whatever its extension and its probe output, and probes nothing.
C8_RootFileSingleton ==
  (pc \notin {"start", "discover"} /\ inpdir \in DOMAIN fs0 /\ fs0[inpdir].kind = "file") =>
    /\ files = <<inpdir>>
    /\ \A a \in Idx : log[a].op # "probe"
    /\ pc # "crashed"

\* a root file with an extension outside the allow-list and a probe output that
\* would classify it as compressed
C8_Witness ==
  /\ pc = "encode" /\ files = <<inpdir>>
  /\ splitext1(inpdir) \notin AllowList
  /\ fs0[inpdir].kind = "file" /\ fs0[inpdir].meta = TaggedMeta

(***************************** C9 *******************************************)
\* C9, as stated: no file is probed before the encode and accept/reject of every
\* file probed before it has finished.
C9_ClassifyEncodeInterleaved ==
  \A a, b, c \in Idx :
    ~ /\ a < b /\ b < c
      /\ log[a].op = "probe" /\ log[b].op = "probe"
      /\ log[c].op # "probe" /\ log[c].path = log[a].path

\* C9, amended: every probe of the run comes before the first encode; after
\* discovery the files are encoded in the order of the list, each file's encode
\* calls and its accept, reject or error finishing before the next file's first
\* encode call, and no file is taken up again.
C9_ProbeAllThenFileByFile ==
  /\ \A a, b \in Idx : a < b /\ log[a].op # "probe" => log[b].op # "probe"
  /\ \A a, b \in Idx :
       a < b /\ log[a].op # "probe" =>
         /\ FileIndex(log[a].path) <= FileIndex(log[b].path)
         /\ IsEnd(a) => log[b].path # log[a].path
  /\ \A a, b \in Idx :
       (a < b /\ log[a].op = "probe" /\ log[b].op = "probe" /\ Discovered
          /\ \E j \in 1..Len(files) : files[j] = log[a].path) =>
         \A j \in 1..Len(files) : files[j] = log[b].path => FileIndex(log[a].path) < j

\* a finished run over two probed files, both encoded
C9_Witness ==
  /\ pc = "done"
  /\ \E a, b, c, d \in Idx :
       /\ a < b /\ b < c /\ c < d
       /\ log[a].op = "probe" /\ log[b].op = "probe"
       /\ IsEnd(c) /\ log[c].path = log[a].path
       /\ IsEncode(d) /\ log[d].path = log[b].path

(***************************** C10 ******************************************)
\* C10: while no encode call has succeeded, the calls on a file take the codec
\* options in the order of the list: the first call on a file takes the first
\* option, a failure of any but the last option is followed by a call with the
\* next option on the same file, a success ends the calls on the file and locks
\* its option in, and the failure of the last option ends them with the error and
\* nothing locked in.
C10_FallbackInOrder ==
  /\ (\A a \in Idx : ~(IsEncode(a) /\ log[a].ok)) => codec = None
  /\ \A b \in Idx : IsEncode(b) /\ ~LockedBefore(b) =>
       /\ IF FirstCallOn(b) THEN OptionOf(b) = 1
          ELSE /\ IsEncode(b - 1) /\ ~log[b - 1].ok
               /\ log[b - 1].path = log[b].path
               /\ OptionOf(b) = OptionOf(b - 1) + 1
       /\ log[b].ok =>
            /\ codec = log[b].codec
            /\ b + 1 \in Idx => IsDecision(b + 1) /\ log[b + 1].path = log[b].path
       /\ ~log[b].ok /\ OptionOf(b) < Len(Codecs) =>
            /\ b + 1 \in Idx => IsEncode(b + 1) /\ log[b + 1].path = log[b].path
            /\ b = Len(log) => pc = "encode" /\ k = OptionOf(b) + 1
       /\ ~log[b].ok /\ OptionOf(b) = Len(Codecs) =>
            /\ b + 1 \in Idx /\ log[b + 1].op = "error"
            /\ log[b + 1].path = log[b].path
            /\ codec = None \/ \E c \in Idx : c > b /\ IsEncode(c) /\ log[c].ok

\* every option failed on the first file, and on the second the first option
\* failed and the second was locked in
C10_Witness ==
  /\ codec = Codecs[2]
  /\ Len(log) >= 6
  /\ \E a \in 1..(Len(log) - 5) :
       /\ \A j \in 1..3 : IsEncode(a + j - 1) /\ ~log[a + j - 1].ok /\ OptionOf(a + j - 1) = j
       /\ log[a + 3].op = "error"
       /\ IsEncode(a + 4) /\ ~log[a + 4].ok /\ OptionOf(a + 4) = 1
       /\ log[a + 4].path # log[a].path
       /\ IsEncode(a + 5) /\ log[a + 5].ok /\ OptionOf(a + 5) = 2

====
